---- MODULE Spec2Model ----
(***************************************************************************)
(* Model of the page-object layer of QA-Sandbox-AutomatedTests:            *)
(* pages/base/BasePage.py (wait engine, interaction layer, retry wrapper), *)
(* pages/login/LoginPage.py, pages/dashboard/DashboardPage.py, config.py.  *)
(*                                                                         *)
(* Time is counted in quarter seconds, so that a timeout may fall between  *)
(* two polls.  Every timeout of the model is a number of quarter seconds.  *)
(***************************************************************************)
EXTENDS Integers, Sequences, FiniteSets, TLC

VARIABLES
    DEFAULT_TIMEOUT,   \* Config.DEFAULT_TIMEOUT, read once from the environment
    document,          \* the document the browser shows
    docGen,            \* number of navigations so far (the document's generation)
    page,              \* the page object under test (NoPage before construction)
    last,              \* what the last completed call did and how it ended
    run                \* the pytest run: configuration, current test, sessions

vars == <<DEFAULT_TIMEOUT, document, docGen, page, last, run>>

-----------------------------------------------------------------------------
(* Bounds of the model *)

MaxEnvSeconds == 1     \* DEFAULT_TIMEOUT values of the environment: -1 .. MaxEnvSeconds seconds
MaxOverride == 2       \* per-call timeout overrides: -1 .. MaxOverride quarter seconds
MaxDelay == 2          \* the waited-for condition comes true after 0 .. MaxDelay quarter seconds
MaxNav == 1            \* navigations in one run
MaxTests == 2          \* tests in one pytest run
MaxAttempts == 3       \* max_attempts values: -1 .. MaxAttempts, and the length
                       \* of the wrapped function's outcome sequence

(* Program constants *)

UnitsPerSecond == 4    \* quarter seconds in the second of DEFAULT_TIMEOUT
ELEMENT_PRESENCE_TIMEOUT == 10     \* Config.ELEMENT_PRESENCE_TIMEOUT, seconds
ELEMENT_VISIBILITY_TIMEOUT == 10   \* Config.ELEMENT_VISIBILITY_TIMEOUT, seconds
ELEMENT_CLICKABLE_TIMEOUT == 10    \* Config.ELEMENT_CLICKABLE_TIMEOUT, seconds
PollInterval == 2      \* the poll interval of WebDriverWait(driver, timeout), which is
                       \* built without a poll_frequency: 0.5 s, in quarter seconds

-----------------------------------------------------------------------------
(* Optional[int]: None is <<>>, the value n is <<n>> *)

None == <<>>
Some(n) == <<n>>

\* Python truthiness of an Optional[int]: None and 0 are falsy
Truthy(o) == o /= None /\ o[1] /= 0

\* Python's `a or b` for an Optional[int] a and an int b
Or(a, b) == IF Truthy(a) THEN a[1] ELSE b

Overrides == {None} \cup {Some(n) : n \in -1..MaxOverride}
Delays == 0..MaxDelay
DefaultTimeouts == {s * UnitsPerSecond : s \in -1..MaxEnvSeconds}

-----------------------------------------------------------------------------
(* The documents the application can show, and the state of each located   *)
(* element in them: 0 absent, 1 present but hidden, 2 visible but not      *)
(* enabled, 3 visible and enabled.                                         *)

Locators == {"EMAIL_INPUT", "PASSWORD_INPUT", "SUBMIT_BUTTON", "ERROR_MESSAGE",
             "PROFILE_CARD", "USE_CASES_CARD", "PLAYGROUND_CARD", "REPORTS_CARD",
             "CARD_TITLE"}

LoginLocators == {"EMAIL_INPUT", "PASSWORD_INPUT", "SUBMIT_BUTTON"}
CardLocators == {"PROFILE_CARD", "USE_CASES_CARD", "PLAYGROUND_CARD", "REPORTS_CARD"}

\* the messages of the login form's validation, and the locator
\* (By.XPATH, f"//*[text()='{expected_validation}']") of each
ValidationMessages == {"Email is required", "Password is required"}

ValidationLocator(expected_validation) ==
    CASE expected_validation = "Email is required" -> "TEXT_EMAIL_REQUIRED"
      [] expected_validation = "Password is required" -> "TEXT_PASSWORD_REQUIRED"

ValidationLocators == {ValidationLocator(m) : m \in ValidationMessages}

\* login_required shows both validation messages; login_required_marked
\* shows them in elements that hold a further child element, so that the
\* element's text node is the message but its rendered text is longer
Documents == {"login", "login_busy", "login_error",
              "login_required", "login_required_marked",
              "dashboard", "dashboard_partial", "dashboard_untitled"}

\* what the application shows at its base URL, where the driver fixture opens it
BaseDocuments == {"login", "login_busy"}

Level(doc, loc) ==
    CASE doc = "login" /\ loc \in LoginLocators -> 3
      [] doc = "login_busy" /\ loc \in LoginLocators -> 2
      [] doc = "login_error" /\ loc \in LoginLocators -> 3
      [] doc \in {"login_required", "login_required_marked"}
            /\ loc \in LoginLocators \cup ValidationLocators -> 3
      [] doc = "login_error" /\ loc = "ERROR_MESSAGE" -> 3
      [] doc = "login" /\ loc = "ERROR_MESSAGE" -> 1
      [] doc = "dashboard" /\ loc \in CardLocators \cup {"CARD_TITLE"} -> 3
      [] doc = "dashboard_untitled" /\ loc \in CardLocators -> 3
      [] doc = "dashboard_partial" /\ loc = "PROFILE_CARD" -> 3
      [] doc = "dashboard_partial" /\ loc = "CARD_TITLE" -> 3
      [] OTHER -> 0

\* an element handle: the locator it was resolved from and the document
\* generation it belongs to; it is stale in every later generation
Handle(loc) == [loc |-> loc, gen |-> docGen]

-----------------------------------------------------------------------------
(* expected_conditions: the predicate of each wait, on the current document *)

HoldsOn(doc, kind, loc) ==
    CASE kind = "presence" -> Level(doc, loc) >= 1
      [] kind = "presence_all" -> Level(doc, loc) >= 1
      [] kind = "visibility" -> Level(doc, loc) >= 2
      [] kind = "clickable" -> Level(doc, loc) >= 3
      [] kind = "invisibility" -> Level(doc, loc) < 2
      [] kind = "frame" -> Level(doc, loc) >= 1
      [] OTHER -> FALSE

Holds(kind, loc) == HoldsOn(document, kind, loc)

(* WebDriverWait(driver, timeout).until(method): evaluate the predicate,   *)
(* return when it holds, otherwise sleep one poll interval and stop once   *)
(* the clock is past the end time.  The predicate is evaluated at least    *)
(* once, whatever the timeout.  holds: whether the predicate ever comes    *)
(* true on this document; delay: when it does, counted from the start.     *)
RECURSIVE Poll(_, _, _, _)
Poll(now, end_time, holds, delay) ==
    IF holds /\ now >= delay
    THEN [timedOut |-> FALSE, at |-> now]
    ELSE IF now + PollInterval > end_time
         THEN [timedOut |-> TRUE, at |-> now + PollInterval]
         ELSE Poll(now + PollInterval, end_time, holds, delay)

Until(timeout, holds, delay) == Poll(0, timeout, holds, delay)

\* the record of one wait: which predicate on which locator, the override the
\* caller gave, the timeout handed to WebDriverWait, how and when it ended,
\* and whether the locator was logged on timeout
Wait(kind, loc, arg, timeout, holds, delay, logs) ==
    LET u == Until(timeout, holds, delay)
    IN  [kind |-> kind, loc |-> loc, arg |-> arg, timeout |-> timeout,
         timedOut |-> u.timedOut, elapsed |-> u.at,
         logged |-> u.timedOut /\ logs]

-----------------------------------------------------------------------------
(* The outcome of a call *)

\* op: the operation; status, error: how it ended; handles, flag, value: what
\* it returned (element handles, a boolean, a text); waits: the waits it made,
\* in order; resolved: the handles its finders resolved, in order; clicks:
\* primitive clicks; scripts: the handles given to execute_script; acts: other
\* calls on an element; used: the handles it acted on; driver: how each call
\* on an element ended, in order; invocations, outcomes, max_attempts:
\* retry_on_stale's calls of the wrapped function and its inputs; args: the
\* arguments of a page-object call; doc: the document a submitted form led
\* to; errors: the logger.error() messages of the page object's own methods;
\* screenshots: the names given to take_screenshot()
Returned == [op |-> "", status |-> "returned", error |-> "none",
             handles |-> {}, flag |-> FALSE, value |-> "None",
             waits |-> <<>>, resolved |-> <<>>, clicks |-> 0, scripts |-> <<>>,
             acts |-> 0, used |-> {}, driver |-> <<>>,
             invocations |-> 0, outcomes |-> <<>>, max_attempts |-> 0,
             args |-> <<>>, doc |-> "", errors |-> <<>>, screenshots |-> <<>>]

Idle == [Returned EXCEPT !.op = "idle"]

\* the call ends by raising `error`, keeping what was observed so far
Raise(r, error) == [r EXCEPT !.status = "raised", !.error = error,
                             !.handles = {}, !.flag = FALSE, !.value = "None"]

\* the call returns, with no value unless one is set afterwards
Return(r) == [r EXCEPT !.status = "returned", !.error = "none",
                       !.handles = {}, !.flag = FALSE, !.value = "None"]

TimedOut(r) == r.waits /= <<>> /\ r.waits[Len(r.waits)].timedOut

RECURSIVE SumElapsed(_)
SumElapsed(ws) == IF ws = <<>> THEN 0 ELSE Head(ws).elapsed + SumElapsed(Tail(ws))

\* what is left of `delay` once the waits of r have run
Remaining(r, delay) ==
    IF delay > SumElapsed(r.waits) THEN delay - SumElapsed(r.waits) ELSE 0

\* r, then a further step s of the same call, made only if r did not raise
\* (r is evaluated once, as the value `a`)
Then(r, s) ==
    LET Both(a) ==
            IF a.status = "raised" THEN a
            ELSE [s EXCEPT !.waits = a.waits \o @,
                           !.resolved = a.resolved \o @,
                           !.clicks = a.clicks + @,
                           !.scripts = a.scripts \o @,
                           !.acts = a.acts + @,
                           !.used = a.used \cup @,
                           !.driver = a.driver \o @]
    IN  CHOOSE t \in {Both(a) : a \in {r}} : TRUE

-----------------------------------------------------------------------------
(* BasePage: the wait engine *)

\* (mutation) the override is dropped: every wait uses the default
FinderDefaultOnly(kind, loc, arg, delay) ==
    LET w == Wait(kind, loc, arg, DEFAULT_TIMEOUT, Holds(kind, loc), delay, TRUE)
        r == [Returned EXCEPT !.waits = <<w>>]
    IN  IF w.timedOut
        THEN Raise(r, "TimeoutException")
        ELSE [r EXCEPT !.handles = {Handle(loc)}, !.resolved = <<Handle(loc)>>]

\* `timeout = timeout or Config.DEFAULT_TIMEOUT`, then one logged wait, on
\* the document doc of generation gen
FinderOn(doc, gen, kind, loc, arg, delay) ==
    LET timeout == Or(arg, DEFAULT_TIMEOUT)
        w == Wait(kind, loc, arg, timeout, HoldsOn(doc, kind, loc), delay, TRUE)
        r == [Returned EXCEPT !.waits = <<w>>]
        h == [loc |-> loc, gen |-> gen]
    IN  IF w.timedOut
        THEN Raise(r, "TimeoutException")
        ELSE [r EXCEPT !.handles = {h}, !.resolved = <<h>>]

\* the finders on the current document
Finder(kind, loc, arg, delay) == FinderOn(document, docGen, kind, loc, arg, delay)

find_element(loc, arg, delay) == Finder("presence", loc, arg, delay)

find_visible_element(loc, arg, delay) == Finder("visibility", loc, arg, delay)

find_clickable_element(loc, arg, delay) == Finder("clickable", loc, arg, delay)

\* (mutation) the timeout is raised again, as the single-element finders do
find_elements_raising(loc, arg, delay) ==
    LET timeout == Or(arg, DEFAULT_TIMEOUT)
        w == Wait("presence_all", loc, arg, timeout, Holds("presence_all", loc),
                  delay, TRUE)
        r == [Returned EXCEPT !.waits = <<w>>]
    IN  IF w.timedOut
        THEN Raise(r, "TimeoutException")
        ELSE [r EXCEPT !.handles = {Handle(loc)}, !.resolved = <<Handle(loc)>>]

find_elements(loc, arg, delay) ==
    LET timeout == Or(arg, DEFAULT_TIMEOUT)
        w == Wait("presence_all", loc, arg, timeout, Holds("presence_all", loc),
                  delay, TRUE)
        r == [Returned EXCEPT !.waits = <<w>>]
    IN  IF w.timedOut
        THEN Return(r)
        ELSE [r EXCEPT !.handles = {Handle(loc)}, !.resolved = <<Handle(loc)>>]

is_element_present(loc, arg, delay) ==
    LET f == find_element(loc, arg, delay)
    IN  IF f.status = "raised"
        THEN IF f.error \in {"TimeoutException", "NoSuchElementException"}
             THEN [Return(f) EXCEPT !.flag = FALSE]
             ELSE f
        ELSE [Return(f) EXCEPT !.flag = TRUE]

is_element_visible(loc, arg, delay) ==
    LET f == find_visible_element(loc, arg, delay)
    IN  IF f.status = "raised"
        THEN IF f.error \in {"TimeoutException", "NoSuchElementException"}
             THEN [Return(f) EXCEPT !.flag = FALSE]
             ELSE f
        ELSE [Return(f) EXCEPT !.flag = TRUE]

\* (mutation) the timeout is logged and dropped
wait_for_element_to_disappear_quiet(loc, arg, delay) ==
    LET timeout == Or(arg, DEFAULT_TIMEOUT)
        w == Wait("invisibility", loc, arg, timeout, Holds("invisibility", loc),
                  delay, TRUE)
    IN  [Returned EXCEPT !.waits = <<w>>]

wait_for_element_to_disappear(loc, arg, delay) ==
    LET timeout == Or(arg, DEFAULT_TIMEOUT)
        w == Wait("invisibility", loc, arg, timeout, Holds("invisibility", loc),
                  delay, TRUE)
        r == [Returned EXCEPT !.waits = <<w>>]
    IN  IF w.timedOut THEN Raise(r, "TimeoutException") ELSE r

switch_to_frame(loc, arg, delay) ==
    LET timeout == Or(arg, DEFAULT_TIMEOUT)
        w == Wait("frame", loc, arg, timeout, Holds("frame", loc), delay, TRUE)
        r == [Returned EXCEPT !.waits = <<w>>]
    IN  IF w.timedOut THEN Raise(r, "TimeoutException") ELSE r

\* wait_for_page_load, wait_for_ajax, wait_for_animation: `timeout` is
\* computed from the override and then not used; the wait is self.wait, built
\* in __init__ with Config.DEFAULT_TIMEOUT.  No handler: nothing is logged.
SelfWait(kind, arg, holds, delay) ==
    LET timeout == Or(arg, DEFAULT_TIMEOUT)
        w == Wait(kind, "", arg, page.wait_timeout, holds, delay, FALSE)
        r == [Returned EXCEPT !.waits = <<w>>]
    IN  IF w.timedOut THEN Raise(r, "TimeoutException") ELSE r

wait_for_page_load(arg, holds, delay) == SelfWait("page_load", arg, holds, delay)

wait_for_ajax(arg, holds, delay) == SelfWait("ajax", arg, holds, delay)

wait_for_animation(arg, holds, delay) == SelfWait("animation", arg, holds, delay)

\* wait_and_accept_alert, wait_and_dismiss_alert: an unlogged wait with the
\* resolved timeout, then one call on the alert
AlertWait(arg, holds, delay) ==
    LET timeout == Or(arg, DEFAULT_TIMEOUT)
        w == Wait("alert", "", arg, timeout, holds, delay, FALSE)
        r == [Returned EXCEPT !.waits = <<w>>]
    IN  IF w.timedOut THEN Raise(r, "TimeoutException") ELSE [r EXCEPT !.acts = 1]

wait_and_accept_alert(arg, holds, delay) == AlertWait(arg, holds, delay)

wait_and_dismiss_alert(arg, holds, delay) == AlertWait(arg, holds, delay)

-----------------------------------------------------------------------------
(* BasePage: the interaction layer.  The driver decides how a call on an   *)
(* element ends: "ok" or the name of the exception it raises.              *)

ClickOutcomes == {"ok", "ElementClickInterceptedException",
                  "StaleElementReferenceException", "WebDriverException"}
ScriptOutcomes == {"ok", "JavascriptException", "StaleElementReferenceException"}
ElementOutcomes == {"ok", "StaleElementReferenceException"}

\* the text the document shows in an element
Text(doc, loc) ==
    CASE loc = "ERROR_MESSAGE" /\ doc = "login_error" -> "Invalid credentials"
      [] loc = "CARD_TITLE" /\ doc \in {"dashboard", "dashboard_partial"} -> "Profile"
      [] loc = "TEXT_EMAIL_REQUIRED" /\ doc = "login_required" -> "Email is required"
      [] loc = "TEXT_PASSWORD_REQUIRED" /\ doc = "login_required" -> "Password is required"
      [] loc = "TEXT_EMAIL_REQUIRED" /\ doc = "login_required_marked" -> "Email is required *"
      [] loc = "TEXT_PASSWORD_REQUIRED" /\ doc = "login_required_marked" -> "Password is required *"
      [] OTHER -> ""

\* one call on the element h that raises whatever the driver raises
Act(r, h, outcome) ==
    LET a == [r EXCEPT !.acts = r.acts + 1, !.used = r.used \cup {h},
                       !.driver = r.driver \o <<outcome>>]
    IN  IF outcome = "ok" THEN Return(a) ELSE Raise(a, outcome)

\* the handle the finder of r returned
Element(r) == r.resolved[Len(r.resolved)]

\* (mutation) the fallback is taken for an intercepted click only
click_element_narrow(loc, arg, delay, click, script) ==
    LET f == find_clickable_element(loc, arg, delay)
        element == Element(f)
        c == [f EXCEPT !.clicks = 1, !.used = {element}, !.driver = <<click>>]
        s == [c EXCEPT !.scripts = <<element>>, !.driver = <<click, script>>]
    IN  IF f.status = "raised" THEN f
        ELSE IF click = "ok" THEN Return(c)
        ELSE IF click /= "ElementClickInterceptedException" THEN Raise(c, click)
        ELSE IF script = "ok" THEN Return(s)
        ELSE Raise(s, script)

\* (mutation) a handle the page object kept from its constructor is clicked
\* instead of resolving the locator again
click_element_cached(loc, arg, delay, click, script) ==
    LET kept == {h \in page.held : h.loc = loc}
        f == IF kept = {} THEN find_clickable_element(loc, arg, delay) ELSE Returned
        element == IF kept = {} THEN Element(f) ELSE CHOOSE h \in kept : TRUE
        c == [f EXCEPT !.clicks = 1, !.used = {element}, !.driver = <<click>>]
        s == [c EXCEPT !.scripts = <<element>>, !.driver = <<click, script>>]
    IN  IF f.status = "raised" THEN f
        ELSE IF click = "ok" THEN Return(c)
        ELSE IF script = "ok" THEN Return(s)
        ELSE Raise(s, script)

\* element.click(); on any exception execute_script("arguments[0].click();", element)
click_element(loc, arg, delay, click, script) ==
    LET f == find_clickable_element(loc, arg, delay)
        element == Element(f)
        c == [f EXCEPT !.clicks = 1, !.used = {element}, !.driver = <<click>>]
        s == [c EXCEPT !.scripts = <<element>>, !.driver = <<click, script>>]
    IN  IF f.status = "raised" THEN f
        ELSE IF click = "ok" THEN Return(c)
        ELSE IF script = "ok" THEN Return(s)
        ELSE Raise(s, script)

\* (mutation) a call on the element that raised is followed by the next one
input_text_retrying(loc, clear_first, arg, delay, outcome) ==
    LET f == find_visible_element(loc, arg, delay)
        a == Act(f, Element(f), outcome)
    IN  IF f.status = "raised" THEN f
        ELSE IF a.status = "returned" /\ ~clear_first THEN a
        ELSE Act(a, Element(f), "ok")

\* element.clear() when clear_first, then element.send_keys(text); `outcome`
\* is how the first of these calls ends
input_text(loc, clear_first, arg, delay, outcome) ==
    LET f == find_visible_element(loc, arg, delay)
        a == Act(f, Element(f), outcome)
    IN  IF f.status = "raised" THEN f
        ELSE IF a.status = "raised" \/ ~clear_first THEN a
        ELSE Act(a, Element(f), "ok")

get_text(loc, arg, delay, outcome) ==
    LET f == find_visible_element(loc, arg, delay)
        a == Act(f, Element(f), outcome)
    IN  IF f.status = "raised" THEN f
        ELSE IF a.status = "raised" THEN a
        ELSE [a EXCEPT !.value = Text(document, loc)]

\* find with the given predicate, then a single call on the element:
\* hover_over_element, scroll_to_element, get_element_attribute,
\* get_validation_message and the three dropdown operations
FindThenAct(kind, loc, arg, delay, outcome) ==
    LET f == Finder(kind, loc, arg, delay)
    IN  IF f.status = "raised" THEN f ELSE Act(f, Element(f), outcome)

hover_over_element(loc, arg, delay, outcome) ==
    FindThenAct("visibility", loc, arg, delay, outcome)

scroll_to_element(loc, arg, delay, outcome) ==
    LET f == find_element(loc, arg, delay)
        s == [f EXCEPT !.scripts = <<Element(f)>>, !.used = {Element(f)},
                       !.driver = <<outcome>>]
    IN  IF f.status = "raised" THEN f
        ELSE IF outcome = "ok" THEN Return(s) ELSE Raise(s, outcome)

get_element_attribute(loc, arg, delay, outcome) ==
    FindThenAct("presence", loc, arg, delay, outcome)

get_validation_message(loc, arg, delay, outcome) ==
    FindThenAct("presence", loc, arg, delay, outcome)

select_dropdown_by_text(loc, arg, delay, outcome) ==
    FindThenAct("visibility", loc, arg, delay, outcome)

select_dropdown_by_value(loc, arg, delay, outcome) ==
    FindThenAct("visibility", loc, arg, delay, outcome)

get_selected_dropdown_text(loc, arg, delay, outcome) ==
    FindThenAct("visibility", loc, arg, delay, outcome)

\* get_attribute('style'), then two scripts on the same element
highlight_element(loc, arg, delay, outcome) ==
    LET f == find_element(loc, arg, delay)
        a == Act(f, Element(f), outcome)
    IN  IF f.status = "raised" THEN f
        ELSE IF a.status = "raised" THEN a
        ELSE [a EXCEPT !.scripts = <<Element(f), Element(f)>>]

-----------------------------------------------------------------------------
(* BasePage.retry_on_stale.  outcomes[i] is how the i-th invocation of the *)
(* wrapped function ends: "ok" or the exception it raises.                 *)

FunctionOutcomes == {"ok", "StaleElementReferenceException", "TimeoutException"}

RECURSIVE RetryLoop(_, _, _, _)
RetryLoop(outcomes, max_attempts, attempts, calls) ==
    LET r == [Returned EXCEPT !.outcomes = outcomes, !.max_attempts = max_attempts]
    IN  IF attempts < max_attempts
        THEN LET outcome == outcomes[calls + 1]
                 called == [r EXCEPT !.invocations = calls + 1]
             IN  IF outcome = "ok"
                 THEN [called EXCEPT !.value = "result"]
                 ELSE IF outcome = "StaleElementReferenceException"
                 THEN IF attempts + 1 = max_attempts
                      THEN Raise(called, outcome)
                      ELSE RetryLoop(outcomes, max_attempts, attempts + 1, calls + 1)
                 ELSE Raise(called, outcome)
        ELSE [r EXCEPT !.invocations = calls]

\* (mutation) the attempts are counted from one: one invocation too few
retry_on_stale_one_short(outcomes, max_attempts) ==
    RetryLoop(outcomes, max_attempts, 1, 0)

\* (mutation) every exception is retried, not the stale reference alone
RECURSIVE RetryAnyLoop(_, _, _, _)
RetryAnyLoop(outcomes, max_attempts, attempts, calls) ==
    LET r == [Returned EXCEPT !.outcomes = outcomes, !.max_attempts = max_attempts]
    IN  IF attempts < max_attempts
        THEN LET outcome == outcomes[calls + 1]
                 called == [r EXCEPT !.invocations = calls + 1]
             IN  IF outcome = "ok"
                 THEN [called EXCEPT !.value = "result"]
                 ELSE IF attempts + 1 = max_attempts
                      THEN Raise(called, outcome)
                      ELSE RetryAnyLoop(outcomes, max_attempts, attempts + 1, calls + 1)
        ELSE [r EXCEPT !.invocations = calls]

retry_on_any(outcomes, max_attempts) == RetryAnyLoop(outcomes, max_attempts, 0, 0)

retry_on_stale(outcomes, max_attempts) == RetryLoop(outcomes, max_attempts, 0, 0)

-----------------------------------------------------------------------------
(* Page objects *)

NoPage == [cls |-> "none", wait_timeout |-> 0, held |-> {}]

\* BasePage.__init__: self.wait = WebDriverWait(driver, Config.DEFAULT_TIMEOUT)
BasePage_init(cls, held) ==
    [cls |-> cls, wait_timeout |-> DEFAULT_TIMEOUT, held |-> held]

\* the handles a constructor resolved and keeps in its fields
Resolved(r) == {r.resolved[i] : i \in 1..Len(r.resolved)}

\* LoginPage.__init__: email_input, password_input, submit_btn
LoginPage_init(delay) ==
    LET e == find_visible_element("EMAIL_INPUT", None, delay)
        p == Then(e, find_visible_element("PASSWORD_INPUT", None, Remaining(e, delay)))
        b == Then(p, find_clickable_element("SUBMIT_BUTTON", None, Remaining(p, delay)))
    IN  IF b.status = "raised" THEN b ELSE [Return(b) EXCEPT !.handles = Resolved(b)]

\* profile_card.find_element(*CARD_TITLE).text: a find on the driver's
\* element with no wait, which raises when the title is not in the document
CardTitle(r, remaining) ==
    LET h == r.resolved[1]
        found == Level(document, "CARD_TITLE") >= 1 /\ remaining = 0
        f == [r EXCEPT !.acts = r.acts + 1, !.used = r.used \cup {h},
                       !.driver = <<IF found THEN "ok" ELSE "NoSuchElementException">>]
    IN  IF found
        THEN [Return(f) EXCEPT !.value = Text(document, "CARD_TITLE")]
        ELSE Raise(f, "NoSuchElementException")

\* DashboardPage.__init__: the four cards, then the profile card's title
DashboardPage_init(delay) ==
    LET a == find_visible_element("PROFILE_CARD", None, delay)
        b == Then(a, find_visible_element("USE_CASES_CARD", None, Remaining(a, delay)))
        c == Then(b, find_visible_element("PLAYGROUND_CARD", None, Remaining(b, delay)))
        d == Then(c, find_visible_element("REPORTS_CARD", None, Remaining(c, delay)))
        t == CardTitle(d, Remaining(d, delay))
    IN  IF d.status = "raised" THEN d
        ELSE IF t.status = "raised" THEN t
        ELSE [t EXCEPT !.handles = Resolved(d)]

\* LoginPage.set_email, set_password, is_logged_in, get_error_message
set_email(delay, outcome) == input_text("EMAIL_INPUT", TRUE, None, delay, outcome)

set_password(delay, outcome) == input_text("PASSWORD_INPUT", TRUE, None, delay, outcome)

is_logged_in(delay) == is_element_visible("PROFILE_CARD", None, delay)

get_error_message(delay, outcome) == get_text("ERROR_MESSAGE", None, delay, outcome)

\* the names bound in the module LoginPage.py when its methods run: its
\* imports and its class
LoginPageNames == {"By", "BasePage", "Config", "LoginPage"}

\* `except <cls> as e:` in a module that binds `names`, reached by `error`:
\* the class expression is evaluated first, and an unbound name raises
\* NameError in place of the error being handled
ExceptClause(names, cls, error) ==
    IF cls \notin names THEN "NameError"
    ELSE IF error = cls THEN "handled"
    ELSE "passed"

\* BasePage.take_screenshot(name), called on the outcome r
take_screenshot(r, name) == [r EXCEPT !.screenshots = r.screenshots \o <<name>>]

\* set_email, set_password, click_element(SUBMIT_BUTTON): the steps that
\* login and check_validation share, on the login form as it stands (the
\* constructor has waited for its fields); `typed` is how the first call on
\* the email field ends
Submit(typed, click, script) ==
    Then(Then(set_email(0, typed), set_password(0, "ok")),
         click_element("SUBMIT_BUTTON", None, 0, click, script))

\* LoginPage.login: the fields are filled outside the try; the click and the
\* wait for the profile card are inside it.  `response` is the document the
\* submitted form leads to, `arrive` when it is there.
login(arrive, response, typed, click, script) ==
    LET p == Then(set_email(0, typed), set_password(0, "ok"))
        Try(v) ==
            LET clause == ExceptClause(LoginPageNames, "TimeoutException", v.error)
            IN  IF v.status = "returned" THEN Return(v)
                ELSE IF clause = "NameError" THEN Raise(v, "NameError")
                ELSE IF clause = "passed" THEN v
                ELSE take_screenshot([v EXCEPT !.errors = <<"Failed to login">>],
                                     "login_failure")
        tried == {Try(v) : v \in {Then(Submit(typed, click, script),
                                       [FinderOn(response, docGen + 1, "visibility",
                                                 "PROFILE_CARD", None, arrive)
                                          EXCEPT !.doc = response])}}
    IN  IF p.status = "raised" THEN p ELSE CHOOSE r \in tried : TRUE

\* `"Password" in expected_validation`
MentionsPassword(expected_validation) ==
    expected_validation \in {"Password is required"}

\* find_password_validation_message and find_email_validation_message: the
\* same body, `expected_validation == validation_element.text` on the
\* document the submit led to; `read` is how reading .text ends
find_validation_message(expected_validation, response, arrive, read) ==
    LET loc == ValidationLocator(expected_validation)
        f == [FinderOn(response, docGen + 1, "visibility", loc, None, arrive)
                EXCEPT !.doc = response]
        a == Act(f, Element(f), read)
    IN  IF f.status = "raised" THEN f
        ELSE IF a.status = "raised" THEN a
        ELSE [a EXCEPT !.value = Text(response, loc),
                       !.flag = (expected_validation = Text(response, loc))]

find_password_validation_message(expected_validation, response, arrive, read) ==
    find_validation_message(expected_validation, response, arrive, read)

find_email_validation_message(expected_validation, response, arrive, read) ==
    find_validation_message(expected_validation, response, arrive, read)

\* (mutation) the element found is taken as the validation, whatever its text
check_validation_found(expected_validation, arrive, response, typed, click, script, read) ==
    LET c == Submit(typed, click, script)
        m == find_validation_message(expected_validation, response, arrive, read)
        r == Then(c, [m EXCEPT !.flag = (m.status = "returned")])
    IN  [r EXCEPT !.args = <<expected_validation>>]

\* LoginPage.check_validation
check_validation(expected_validation, arrive, response, typed, click, script, read) ==
    LET c == Submit(typed, click, script)
        r == Then(c, IF MentionsPassword(expected_validation)
                     THEN find_password_validation_message(expected_validation,
                                                           response, arrive, read)
                     ELSE find_email_validation_message(expected_validation,
                                                        response, arrive, read))
    IN  [r EXCEPT !.args = <<expected_validation>>]

\* DashboardPage.navigate_to_use_cases, _playground, _reports, get_profile_title
navigate_to(card, delay, click, script) == click_element(card, None, delay, click, script)

get_profile_title(delay, outcome) == get_text("CARD_TITLE", None, delay, outcome)

-----------------------------------------------------------------------------
(* The pytest run: Config as loaded, the --env option, the test being run  *)
(* and the driver sessions                                                 *)

Envs == {"qa", "dev", "staging"}

\* Config.BASE_URLS
BASE_URLS(env) ==
    CASE env = "qa" -> "QA_BASE_URL"
      [] env = "dev" -> "DEV_BASE_URL"
      [] env = "staging" -> "STAGING_BASE_URL"

\* the report of a test: the phase that decided it, its outcome, the error
\* it reports, whether a failure screenshot was taken, and the fixtures that
\* had been set up
NoReport == [test |-> "", when |-> "", outcome |-> "", error |-> "none",
             screenshot |-> FALSE, funcargs |-> {}]

\* ENV: Config.ENV, read when config.py was imported; option: --env;
\* environ: os.environ["ENV"]; test, phase, todo, funcargs, step: the test
\* being run, its fixtures still to set up and those set up, the next
\* statement of its body; created, open, session, url: the sessions created
\* so far, those not quit, the one of the test and the URL it was opened at;
\* report, done: the report of the last test and the number of tests run
NoRun == [ENV |-> "qa", option |-> "qa", environ |-> "qa",
          test |-> "", phase |-> "idle", todo |-> <<>>, funcargs |-> {},
          step |-> 0, created |-> 0, open |-> {}, session |-> 0, url |-> "",
          report |-> NoReport, done |-> 0]

Tests == {"test_successful_login_qa_user", "test_validation_messages"}

\* the fixtures of a test, in the order pytest sets them up
Fixtures(test) ==
    IF test = "test_successful_login_qa_user"
    THEN <<"driver", "login_page", "dashboard_page">>
    ELSE <<"driver", "login_page">>

\* the statements of a test's body
Body(test) ==
    IF test = "test_successful_login_qa_user"
    THEN <<"login", "assert is_logged_in", "assert get_profile_title">>
    ELSE <<"check_validation">>

\* pytest_runtest_makereport: whether the hook takes the failure screenshot
pytest_runtest_makereport(when, failed, funcargs) ==
    when = "call" /\ failed /\ "driver" \in funcargs

\* the report of the current test, decided in phase `when` by `error`
Report(when, error) ==
    [test |-> run.test, when |-> when,
     outcome |-> IF error = "none" THEN "passed" ELSE "failed",
     error |-> error,
     screenshot |-> pytest_runtest_makereport(when, error /= "none", run.funcargs),
     funcargs |-> run.funcargs]

\* the phase ends with `error`: on an error, or after the last statement of
\* the body, the test goes to its teardown
Failed(when, error) == [run EXCEPT !.phase = "teardown", !.report = Report(when, error)]

\* the fixture at the head of todo is set up
FixtureReady ==
    [run EXCEPT !.todo = Tail(run.todo),
                !.funcargs = run.funcargs \cup {Head(run.todo)},
                !.phase = IF Tail(run.todo) = <<>> THEN "call" ELSE "setup"]

-----------------------------------------------------------------------------
(* Actions.  A call is one step: it reads the document, runs to its end    *)
(* and leaves its outcome in `last`.                                       *)

ProbeLocators == {"SUBMIT_BUTTON", "ERROR_MESSAGE"}

Init ==
    /\ DEFAULT_TIMEOUT \in DefaultTimeouts
    /\ document \in BaseDocuments
    /\ docGen = 0
    /\ page = NoPage
    /\ last = Idle
    /\ run = NoRun

\* a method of the page object is called and ends as r
Call(name, r) ==
    /\ page.cls /= "none"
    /\ last' = [r EXCEPT !.op = name]
    /\ UNCHANGED <<DEFAULT_TIMEOUT, document, docGen, page, run>>

\* a constructor is called and ends as r; the object exists only if it returned
Construct(cls, r) ==
    /\ last' = [r EXCEPT !.op = cls]
    /\ page' = IF r.status = "returned" THEN BasePage_init(cls, r.handles) ELSE page
    /\ UNCHANGED <<DEFAULT_TIMEOUT, document, docGen, run>>

NewBasePage == Construct("BasePage", Returned)

NewLoginPage == \E delay \in Delays : Construct("LoginPage", LoginPage_init(delay))

NewDashboardPage == \E delay \in Delays : Construct("DashboardPage", DashboardPage_init(delay))

FindElement(A, D) ==
    \E loc \in ProbeLocators, arg \in A, delay \in D :
        Call("find_element", find_element(loc, arg, delay))

FindVisibleElement(A, D) ==
    \E loc \in ProbeLocators, arg \in A, delay \in D :
        Call("find_visible_element", find_visible_element(loc, arg, delay))

FindClickableElement(A, D) ==
    \E loc \in ProbeLocators, arg \in A, delay \in D :
        Call("find_clickable_element", find_clickable_element(loc, arg, delay))

FindElements(A, D) ==
    \E loc \in ProbeLocators, arg \in A, delay \in D :
        Call("find_elements", find_elements(loc, arg, delay))

IsElementPresent(A, D) ==
    \E loc \in ProbeLocators, arg \in A, delay \in D :
        Call("is_element_present", is_element_present(loc, arg, delay))

IsElementVisible(A, D) ==
    \E loc \in ProbeLocators, arg \in A, delay \in D :
        Call("is_element_visible", is_element_visible(loc, arg, delay))

WaitForElementToDisappear(A, D) ==
    \E loc \in ProbeLocators, arg \in A, delay \in D :
        Call("wait_for_element_to_disappear", wait_for_element_to_disappear(loc, arg, delay))

SwitchToFrame(A, D) ==
    \E loc \in ProbeLocators, arg \in A, delay \in D :
        Call("switch_to_frame", switch_to_frame(loc, arg, delay))

WaitForPageLoad(A, D) ==
    \E arg \in A, holds \in BOOLEAN, delay \in D :
        Call("wait_for_page_load", wait_for_page_load(arg, holds, delay))

WaitForAjax(A, D) ==
    \E arg \in A, holds \in BOOLEAN, delay \in D :
        Call("wait_for_ajax", wait_for_ajax(arg, holds, delay))

WaitForAnimation(A, D) ==
    \E arg \in A, holds \in BOOLEAN, delay \in D :
        Call("wait_for_animation", wait_for_animation(arg, holds, delay))

WaitAndAcceptAlert(A, D) ==
    \E arg \in A, holds \in BOOLEAN, delay \in D :
        Call("wait_and_accept_alert", wait_and_accept_alert(arg, holds, delay))

WaitAndDismissAlert(A, D) ==
    \E arg \in A, holds \in BOOLEAN, delay \in D :
        Call("wait_and_dismiss_alert", wait_and_dismiss_alert(arg, holds, delay))

\* the wait engine, for every override and every delay
NextWait ==
    \/ NewBasePage
    \/ FindElement(Overrides, Delays)
    \/ FindVisibleElement(Overrides, Delays)
    \/ FindClickableElement(Overrides, Delays)
    \/ FindElements(Overrides, Delays)
    \/ IsElementPresent(Overrides, Delays)
    \/ IsElementVisible(Overrides, Delays)
    \/ WaitForElementToDisappear(Overrides, Delays)
    \/ SwitchToFrame(Overrides, Delays)
    \/ WaitForPageLoad(Overrides, Delays)
    \/ WaitForAjax(Overrides, Delays)
    \/ WaitForAnimation(Overrides, Delays)
    \/ WaitAndAcceptAlert(Overrides, Delays)
    \/ WaitAndDismissAlert(Overrides, Delays)

SpecWait == Init /\ [][NextWait]_vars

-----------------------------------------------------------------------------
(* retry_on_stale on its own *)

RECURSIVE Outcomes(_)
Outcomes(n) ==
    IF n = 0 THEN {<<>>}
    ELSE {<<o>> \o s : o \in FunctionOutcomes, s \in Outcomes(n - 1)}

RetryOnStale ==
    \E outcomes \in Outcomes(MaxAttempts), max_attempts \in -1..MaxAttempts :
        Call("retry_on_stale", retry_on_stale(outcomes, max_attempts))

NextRetry == NewBasePage \/ RetryOnStale

SpecRetry == Init /\ [][NextRetry]_vars

-----------------------------------------------------------------------------
(* Every operation of BasePage, on a document that does not change *)

FewOverrides == {None, Some(MaxOverride)}
FewDelays == {0, MaxDelay}

ClickElement(A, D) ==
    \E loc \in ProbeLocators, arg \in A, delay \in D,
       click \in ClickOutcomes, script \in ScriptOutcomes :
        Call("click_element", click_element(loc, arg, delay, click, script))

InputText(A, D) ==
    \E loc \in ProbeLocators, clear_first \in BOOLEAN, arg \in A, delay \in D,
       outcome \in ElementOutcomes :
        Call("input_text", input_text(loc, clear_first, arg, delay, outcome))

GetText(A, D) ==
    \E loc \in ProbeLocators, arg \in A, delay \in D, outcome \in ElementOutcomes :
        Call("get_text", get_text(loc, arg, delay, outcome))

HoverOverElement(A, D) ==
    \E loc \in ProbeLocators, arg \in A, delay \in D, outcome \in ElementOutcomes :
        Call("hover_over_element", hover_over_element(loc, arg, delay, outcome))

ScrollToElement(A, D) ==
    \E loc \in ProbeLocators, arg \in A, delay \in D, outcome \in ElementOutcomes :
        Call("scroll_to_element", scroll_to_element(loc, arg, delay, outcome))

GetElementAttribute(A, D) ==
    \E loc \in ProbeLocators, arg \in A, delay \in D, outcome \in ElementOutcomes :
        Call("get_element_attribute", get_element_attribute(loc, arg, delay, outcome))

GetValidationMessage(A, D) ==
    \E loc \in ProbeLocators, arg \in A, delay \in D, outcome \in ElementOutcomes :
        Call("get_validation_message", get_validation_message(loc, arg, delay, outcome))

SelectDropdownByText(A, D) ==
    \E loc \in ProbeLocators, arg \in A, delay \in D, outcome \in ElementOutcomes :
        Call("select_dropdown_by_text", select_dropdown_by_text(loc, arg, delay, outcome))

SelectDropdownByValue(A, D) ==
    \E loc \in ProbeLocators, arg \in A, delay \in D, outcome \in ElementOutcomes :
        Call("select_dropdown_by_value", select_dropdown_by_value(loc, arg, delay, outcome))

GetSelectedDropdownText(A, D) ==
    \E loc \in ProbeLocators, arg \in A, delay \in D, outcome \in ElementOutcomes :
        Call("get_selected_dropdown_text", get_selected_dropdown_text(loc, arg, delay, outcome))

HighlightElement(A, D) ==
    \E loc \in ProbeLocators, arg \in A, delay \in D, outcome \in ElementOutcomes :
        Call("highlight_element", highlight_element(loc, arg, delay, outcome))

Interact(A, D) ==
    \/ ClickElement(A, D)
    \/ InputText(A, D)
    \/ GetText(A, D)
    \/ HoverOverElement(A, D)
    \/ ScrollToElement(A, D)
    \/ GetElementAttribute(A, D)
    \/ GetValidationMessage(A, D)
    \/ SelectDropdownByText(A, D)
    \/ SelectDropdownByValue(A, D)
    \/ GetSelectedDropdownText(A, D)
    \/ HighlightElement(A, D)

NextBase ==
    \/ NewBasePage
    \/ FindElement(FewOverrides, FewDelays)
    \/ FindVisibleElement(FewOverrides, FewDelays)
    \/ FindClickableElement(FewOverrides, FewDelays)
    \/ FindElements(FewOverrides, FewDelays)
    \/ IsElementPresent(FewOverrides, FewDelays)
    \/ IsElementVisible(FewOverrides, FewDelays)
    \/ WaitForElementToDisappear(FewOverrides, FewDelays)
    \/ SwitchToFrame(FewOverrides, FewDelays)
    \/ WaitForPageLoad(FewOverrides, FewDelays)
    \/ WaitForAjax(FewOverrides, FewDelays)
    \/ WaitForAnimation(FewOverrides, FewDelays)
    \/ WaitAndAcceptAlert(FewOverrides, FewDelays)
    \/ WaitAndDismissAlert(FewOverrides, FewDelays)
    \/ Interact(FewOverrides, FewDelays)

SpecBase == Init /\ [][NextBase]_vars

-----------------------------------------------------------------------------
(* The page objects in a browser that navigates *)

SetEmail ==
    \E delay \in FewDelays, outcome \in ElementOutcomes :
        page.cls = "LoginPage" /\ Call("set_email", set_email(delay, outcome))

SetPassword ==
    \E delay \in FewDelays, outcome \in ElementOutcomes :
        page.cls = "LoginPage" /\ Call("set_password", set_password(delay, outcome))

IsLoggedIn ==
    \E delay \in FewDelays :
        page.cls = "LoginPage" /\ Call("is_logged_in", is_logged_in(delay))

GetErrorMessage ==
    \E delay \in FewDelays, outcome \in ElementOutcomes :
        page.cls = "LoginPage" /\ Call("get_error_message", get_error_message(delay, outcome))

NavigateTo ==
    \E card \in CardLocators \ {"PROFILE_CARD"}, delay \in FewDelays,
       click \in ClickOutcomes, script \in ScriptOutcomes :
        page.cls = "DashboardPage" /\ Call("navigate_to", navigate_to(card, delay, click, script))

GetProfileTitle ==
    \E delay \in FewDelays, outcome \in ElementOutcomes :
        page.cls = "DashboardPage" /\ Call("get_profile_title", get_profile_title(delay, outcome))

\* the browser leaves the document for another one: every handle of the old
\* document is stale from here on
Load(doc) ==
    /\ docGen < MaxNav
    /\ document' = doc
    /\ docGen' = docGen + 1

\* the application navigates on its own (a redirect, a submitted form)
Navigate ==
    \E doc \in Documents :
        /\ Load(doc)
        /\ UNCHANGED <<DEFAULT_TIMEOUT, page, last, run>>

\* refresh_page, go_back, go_forward: the driver call, then wait_for_page_load()
Reload(name, docs) ==
    \E doc \in docs, holds \in BOOLEAN, delay \in FewDelays :
        /\ page.cls /= "none"
        /\ Load(doc)
        /\ last' = [wait_for_page_load(None, holds, delay) EXCEPT !.op = name]
        /\ UNCHANGED <<DEFAULT_TIMEOUT, page, run>>

RefreshPage == Reload("refresh_page", {document})

GoBack == Reload("go_back", Documents)

GoForward == Reload("go_forward", Documents)

Next ==
    \/ NewLoginPage
    \/ NewDashboardPage
    \/ SetEmail
    \/ SetPassword
    \/ IsLoggedIn
    \/ GetErrorMessage
    \/ NavigateTo
    \/ GetProfileTitle
    \/ Interact({None}, {0})
    \/ Navigate
    \/ RefreshPage
    \/ GoBack
    \/ GoForward

Spec == Init /\ [][Next]_vars

-----------------------------------------------------------------------------
(* The login page and its form *)

\* what the application answers a submitted login form with
Responses == {"login", "login_error", "login_required", "login_required_marked",
              "dashboard"}

\* the ways the clicks on the submit button end
FewClicks == {"ok", "ElementClickInterceptedException"}
FewScripts == {"ok", "JavascriptException"}

\* a method of the login page that submits the form ends as r; the form was
\* submitted if the click on the button returned, and the browser is then on
\* the document `response`
Press(name, r, submitted, response) ==
    /\ page.cls = "LoginPage"
    /\ submitted => docGen < MaxNav
    /\ last' = [r EXCEPT !.op = name]
    /\ IF submitted
       THEN document' = response /\ docGen' = docGen + 1
       ELSE UNCHANGED <<document, docGen>>
    /\ UNCHANGED <<DEFAULT_TIMEOUT, page, run>>

\* the script click is reached only after a failed click, the click only
\* after the fields were filled
Login ==
    \E typed \in ElementOutcomes :
    \E click \in IF typed = "ok" THEN FewClicks ELSE {"ok"} :
    \E script \in IF click = "ok" THEN {"ok"} ELSE FewScripts :
    \E arrive \in FewDelays, response \in Responses :
        Press("login", login(arrive, response, typed, click, script),
              Submit(typed, click, script).status = "returned", response)

CheckValidation ==
    \E typed \in ElementOutcomes :
    \E click \in IF typed = "ok" THEN FewClicks ELSE {"ok"} :
    \E script \in IF click = "ok" THEN {"ok"} ELSE FewScripts :
    \E expected_validation \in ValidationMessages,
       arrive \in FewDelays, response \in Responses, read \in ElementOutcomes :
        Press("check_validation",
              check_validation(expected_validation, arrive, response,
                               typed, click, script, read),
              Submit(typed, click, script).status = "returned", response)

NextLogin ==
    \/ NewLoginPage
    \/ Login
    \/ CheckValidation
    \/ IsLoggedIn
    \/ GetErrorMessage

SpecLogin == Init /\ [][NextLogin]_vars

-----------------------------------------------------------------------------
(* Tests run by pytest, one after the other *)

DriverOutcomes == {"ok", "WebDriverException"}

InitTest ==
    /\ DEFAULT_TIMEOUT \in DefaultTimeouts
    /\ document = "login"
    /\ docGen = 0
    /\ page = NoPage
    /\ last = Idle
    /\ run \in {[NoRun EXCEPT !.ENV = e, !.environ = e, !.option = o] :
                    e \in Envs, o \in Envs}

StartTest ==
    \E test \in Tests :
        /\ run.phase = "idle"
        /\ run.done < MaxTests
        /\ run' = [run EXCEPT !.test = test, !.phase = "setup",
                              !.todo = Fixtures(test), !.funcargs = {},
                              !.step = 1, !.session = 0, !.url = ""]
        /\ UNCHANGED <<DEFAULT_TIMEOUT, document, docGen, page, last>>

\* the driver fixture up to its yield: ENV is put in the environment, the
\* session is created, opened at Config.BASE_URL and maximised; an error of
\* get() or maximize_window() ends the fixture before the yield
SetupDriver ==
    \E get \in DriverOutcomes :
    \E maximize_window \in IF get = "ok" THEN DriverOutcomes ELSE {"ok"} :
    \E doc \in BaseDocuments :
        LET id == run.created + 1
            created == [run EXCEPT !.environ = run.option,
                                   !.created = id,
                                   !.open = run.open \cup {id},
                                   !.session = id,
                                   !.url = IF get = "ok" THEN BASE_URLS(run.ENV) ELSE ""]
        IN  /\ run.phase = "setup" /\ Head(run.todo) = "driver"
            /\ document' = IF get = "ok" THEN doc ELSE document
            /\ docGen' = 0
            /\ run' = IF get = "ok" /\ maximize_window = "ok"
                      THEN [created EXCEPT !.todo = Tail(run.todo),
                                           !.funcargs = run.funcargs \cup {"driver"}]
                      ELSE [created EXCEPT !.phase = "teardown",
                                           !.report = Report("setup", "WebDriverException")]
            /\ UNCHANGED <<DEFAULT_TIMEOUT, page, last>>

\* a page-object fixture: the constructor is called on the test's session
SetupPage(fixture, cls, r) ==
    /\ run.phase = "setup" /\ Head(run.todo) = fixture
    /\ last' = [r EXCEPT !.op = cls]
    /\ page' = IF r.status = "returned" THEN BasePage_init(cls, r.handles) ELSE page
    /\ run' = IF r.status = "returned" THEN FixtureReady ELSE Failed("setup", r.error)
    /\ UNCHANGED <<DEFAULT_TIMEOUT, document, docGen>>

SetupLoginPage ==
    \E delay \in FewDelays : SetupPage("login_page", "LoginPage", LoginPage_init(delay))

SetupDashboardPage ==
    \E delay \in FewDelays :
        SetupPage("dashboard_page", "DashboardPage", DashboardPage_init(delay))

\* a statement of a test's body: the call of the page object it makes
Statement(statement, expected_validation, arrive, response, typed, click, script, read) ==
    CASE statement = "login" ->
            login(arrive, response, typed, click, script)
      [] statement = "check_validation" ->
            check_validation(expected_validation, arrive, response,
                             typed, click, script, read)
      [] statement = "assert is_logged_in" -> is_logged_in(arrive)
      [] statement = "assert get_profile_title" -> get_profile_title(arrive, read)

\* the error a statement whose call ended as r fails the test with: the error
\* of the call, or the AssertionError of an assert on a falsy result
StatementError(statement, r) ==
    IF r.status = "raised" THEN r.error
    ELSE IF statement = "assert is_logged_in" /\ ~r.flag THEN "AssertionError"
    ELSE IF statement = "assert get_profile_title" /\ r.value = "" THEN "AssertionError"
    ELSE "none"

\* the next statement of the test's body is run; a statement that fails, or
\* the last one, ends the call phase
BodyStep ==
    /\ run.phase = "call"
    /\ \E typed \in ElementOutcomes :
       \E click \in IF typed = "ok" THEN FewClicks ELSE {"ok"} :
       \E script \in IF click = "ok" THEN {"ok"} ELSE FewScripts :
       \E expected_validation \in ValidationMessages,
          arrive \in FewDelays, response \in Responses, read \in ElementOutcomes :
       \E statement \in {Body(run.test)[run.step]} :
       \E r \in {Statement(statement, expected_validation, arrive, response,
                            typed, click, script, read)} :
       \E submitted \in {(statement \in {"login", "check_validation"})
                           /\ (Submit(typed, click, script).status = "returned")} :
       \E error \in {StatementError(statement, r)} :
           /\ submitted => docGen < MaxNav
           /\ last' = [r EXCEPT !.op = statement]
           /\ IF submitted
              THEN document' = response /\ docGen' = docGen + 1
              ELSE UNCHANGED <<document, docGen>>
           /\ run' = IF error /= "none" \/ run.step = Len(Body(run.test))
                     THEN Failed("call", error)
                     ELSE [run EXCEPT !.step = run.step + 1]
           /\ UNCHANGED <<DEFAULT_TIMEOUT, page>>

\* the teardown of the fixtures that were set up: the driver fixture goes on
\* after its yield and quits the session; the page objects of the test and
\* the document its session showed are gone with the test
Teardown ==
    /\ run.phase = "teardown"
    /\ run' = [run EXCEPT !.phase = "idle", !.done = run.done + 1,
                          !.todo = <<>>, !.funcargs = {}, !.step = 0,
                          !.open = IF "driver" \in run.funcargs
                                   THEN run.open \ {run.session}
                                   ELSE run.open]
    /\ document' = "login"
    /\ docGen' = 0
    /\ page' = NoPage
    /\ last' = Idle
    /\ UNCHANGED DEFAULT_TIMEOUT

NextTest ==
    \/ StartTest
    \/ SetupDriver
    \/ SetupLoginPage
    \/ SetupDashboardPage
    \/ BodyStep
    \/ Teardown

SpecTest == InitTest /\ [][NextTest]_vars

-----------------------------------------------------------------------------
(* Properties *)

Stale == "StaleElementReferenceException"

\* C1: retry_on_stale with max_attempts = 3: stale on invocations 1 and 2 and
\* success on invocation 3 returns that result after exactly 3 invocations;
\* stale on all 3 invocations raises the staleness error after exactly 3.
C1_RetryThreeAttempts ==
    (last.op = "retry_on_stale" /\ last.max_attempts = 3) =>
        LET o == last.outcomes
        IN  /\ (o[1] = Stale /\ o[2] = Stale /\ o[3] = "ok") =>
                    /\ last.status = "returned"
                    /\ last.value = "result"
                    /\ last.invocations = 3
            /\ (o[1] = Stale /\ o[2] = Stale /\ o[3] = Stale) =>
                    /\ last.status = "raised"
                    /\ last.error = Stale
                    /\ last.invocations = 3

C1_Witness ==
    /\ last.op = "retry_on_stale" /\ last.max_attempts = 3
    /\ last.outcomes[1] = Stale /\ last.outcomes[2] = Stale /\ last.outcomes[3] = "ok"
    /\ last.status = "returned" /\ last.invocations = 3

\* C2: retry_on_stale does not retry an error that is no staleness error:
\* the first such error, on whichever invocation it comes, is raised at once
\* and that invocation is the last; on the first invocation, exactly 1 occurs.
C2_NoRetryOnOtherError ==
    last.op = "retry_on_stale" =>
        \A i \in 1..Len(last.outcomes) :
            ( /\ i <= last.max_attempts
              /\ last.outcomes[i] \notin {"ok", Stale}
              /\ \A j \in 1..(i - 1) : last.outcomes[j] = Stale ) =>
                /\ last.status = "raised"
                /\ last.error = last.outcomes[i]
                /\ last.invocations = i

C2_Witness ==
    /\ last.op = "retry_on_stale" /\ last.max_attempts = 3
    /\ last.outcomes[1] = "TimeoutException"
    /\ last.status = "raised" /\ last.error = "TimeoutException"
    /\ last.invocations = 1

\* C3: click_element, once the element is resolved as clickable: if the
\* primitive click raises anything, the script click is made exactly once, on
\* the handle that was resolved (resolved once), and the call returns if the
\* script click succeeds; if the primitive click succeeds no script is run.
C3_ClickFallback ==
    (last.op = "click_element" /\ last.resolved /= <<>>) =>
        /\ Len(last.resolved) = 1 /\ Len(last.waits) = 1
        /\ last.clicks = 1
        /\ last.driver[1] = "ok" =>
                (last.scripts = <<>> /\ last.status = "returned")
        /\ last.driver[1] /= "ok" =>
                /\ last.scripts = last.resolved
                /\ Len(last.driver) = 2
                /\ last.driver[2] = "ok" => last.status = "returned"
                /\ last.driver[2] /= "ok" =>
                        (last.status = "raised" /\ last.error = last.driver[2])

C3_Witness ==
    /\ last.op = "click_element"
    /\ last.driver = <<"WebDriverException", "ok">>
    /\ last.scripts = last.resolved /\ Len(last.scripts) = 1
    /\ last.status = "returned"

SingleFinders == {"find_element", "find_visible_element", "find_clickable_element"}

\* C4: find_elements never raises: when its wait times out it returns the
\* empty list, and not before the timeout has elapsed; a single-element
\* finder whose wait times out raises the timeout error.
C4_FindAllNeverRaises ==
    /\ last.op = "find_elements" =>
            /\ last.status = "returned"
            /\ TimedOut(last) =>
                    /\ last.handles = {}
                    /\ last.waits[1].elapsed >= last.waits[1].timeout
    /\ (last.op \in SingleFinders /\ TimedOut(last)) =>
            (last.status = "raised" /\ last.error = "TimeoutException")

C4_Witness ==
    /\ last.op = "find_elements"
    /\ TimedOut(last) /\ ~Holds("presence_all", last.waits[1].loc)
    /\ last.status = "returned" /\ last.handles = {}

\* the timeout the caller of a wait asked for: the override when it is a
\* positive duration, the configured default when there is no override
Requested(w) ==
    IF w.arg = None THEN DEFAULT_TIMEOUT
    ELSE IF w.arg[1] > 0 THEN w.arg[1] ELSE 0

\* C5: a finder asked to wait T > 0 for a predicate that does not come true
\* in time raises the timeout error no earlier than T and no later than T
\* plus one poll interval after the wait started.
C5_TimeoutWindow ==
    (last.op \in SingleFinders /\ Requested(last.waits[1]) > 0 /\ TimedOut(last)) =>
        /\ last.status = "raised" /\ last.error = "TimeoutException"
        /\ last.waits[1].elapsed >= Requested(last.waits[1])
        /\ last.waits[1].elapsed <= Requested(last.waits[1]) + PollInterval

C5_Witness ==
    /\ last.op \in SingleFinders
    /\ last.waits[1].arg /= None /\ Requested(last.waits[1]) > 0
    /\ ~Holds(last.waits[1].kind, last.waits[1].loc)
    /\ last.status = "raised"
    /\ last.waits[1].elapsed = Requested(last.waits[1]) + PollInterval

Swallowers == {"find_elements", "is_element_present", "is_element_visible"}

\* C6 as claimed: no BasePage operation but find_elements ends without
\* raising when its wait timed out (here under a positive configured default).
C6_OnlyFindAllSwallows ==
    (DEFAULT_TIMEOUT > 0 /\ TimedOut(last) /\ last.op /= "find_elements") =>
        (last.status = "raised" /\ last.error = "TimeoutException")

\* C6: a wait timeout is raised to the caller by every BasePage operation but
\* three: find_elements turns it into the empty list, is_element_present and
\* is_element_visible turn it into False.
C6_TimeoutSurfaced ==
    TimedOut(last) =>
        /\ last.op \notin Swallowers =>
                (last.status = "raised" /\ last.error = "TimeoutException")
        /\ last.op \in Swallowers =>
                (last.status = "returned" /\ last.handles = {} /\ ~last.flag)

C6_Witness ==
    /\ last.op = "is_element_visible"
    /\ TimedOut(last)
    /\ last.status = "returned" /\ ~last.flag

\* C7: every wait is bounded by the per-call override when a (positive) one
\* is given, and by the configured default when none is given (here under a
\* positive configured default).
C7_OverrideBoundsWait ==
    DEFAULT_TIMEOUT > 0 =>
        \A i \in 1..Len(last.waits) :
            LET w == last.waits[i]
            IN  /\ (w.arg /= None /\ w.arg[1] > 0) => w.timeout = w.arg[1]
                /\ w.arg = None => w.timeout = DEFAULT_TIMEOUT

\* C8: the timeout handed to the polling wait is always positive.
C8_TimeoutPositive ==
    \A i \in 1..Len(last.waits) : last.waits[i].timeout > 0

\* C9 as claimed: the page object holds no handle of an earlier document.
C9_NoHandleAcrossNavigation ==
    \A h \in page.held : h.gen = docGen

\* C9: every interaction acts only on a handle that a wait of the same call
\* resolved; the page objects do keep the handles their constructors
\* resolved across navigations, and no method acts on a kept handle.
C9_InteractionsResolveAtCall ==
    /\ last.used \subseteq Resolved(last)
    /\ last.used /= {} => last.waits /= <<>>
    /\ Len(last.scripts) > 0 => \A i \in 1..Len(last.scripts) : last.scripts[i] \in Resolved(last)

C9_Witness ==
    /\ \E h \in page.held : h.gen < docGen
    /\ last.op \in {"click_element", "set_email", "input_text", "get_text"}
    /\ last.used /= {}
    /\ \A h \in last.used : h.gen = docGen /\ h \notin page.held

\* C10: a page object's constructor resolves its defining elements through
\* waits, and when it fails it fails with a timeout error and no other (here
\* under a positive configured default).
C10_ConstructorTimeoutOnly ==
    (DEFAULT_TIMEOUT > 0 /\ last.op \in {"LoginPage", "DashboardPage"}) =>
        /\ last.waits /= <<>>
        /\ last.status = "raised" => last.error = "TimeoutException"

\* the interactions that find an element and then call it, click aside
PlainInteractions ==
    {"input_text", "get_text", "hover_over_element", "scroll_to_element",
     "get_element_attribute", "get_validation_message", "highlight_element",
     "select_dropdown_by_text", "select_dropdown_by_value",
     "get_selected_dropdown_text"}

\* C17 as claimed: an interaction outside retry_on_stale that meets a stale
\* reference makes no second attempt on the element and raises the staleness
\* error, click_element included.
C17_StaleNeverRetried ==
    ( /\ DEFAULT_TIMEOUT > 0
      /\ last.op \in PlainInteractions \cup {"click_element"}
      /\ last.driver /= <<>>
      /\ last.driver[1] = Stale ) =>
        /\ Len(last.driver) = 1
        /\ last.scripts = <<>> \/ last.op = "scroll_to_element"
        /\ last.status = "raised" /\ last.error = Stale

\* C17: type, read, hover, scroll, get attribute and select make no second
\* call on an element whose first call raised a stale reference, and raise
\* it; click_element is the exception: its fallback runs the script click on
\* the same handle after any error of the primitive click, staleness included.
C17_StaleRetriedByClickOnly ==
    (last.driver /= <<>> /\ last.driver[1] = Stale) =>
        /\ last.op \in PlainInteractions =>
                /\ Len(last.driver) = 1
                /\ last.status = "raised" /\ last.error = Stale
        /\ last.op = "click_element" =>
                /\ Len(last.driver) = 2
                /\ last.scripts = last.resolved

C17_Witness ==
    /\ last.op = "input_text"
    /\ last.driver = <<Stale>> /\ last.acts = 1
    /\ last.status = "raised" /\ last.error = Stale

\* C18: every call whose wait times out and raises has logged the locator of
\* the wait (here under a positive configured default).
C18_TimeoutLogged ==
    (DEFAULT_TIMEOUT > 0 /\ TimedOut(last) /\ last.status = "raised") =>
        last.waits[Len(last.waits)].logged

\* the configured timeout of a predicate, in quarter seconds
ConfiguredTimeout(kind) ==
    UnitsPerSecond *
        CASE kind = "presence" -> ELEMENT_PRESENCE_TIMEOUT
          [] kind = "visibility" -> ELEMENT_VISIBILITY_TIMEOUT
          [] kind = "clickable" -> ELEMENT_CLICKABLE_TIMEOUT

\* C19: without an override, a presence, visibility or clickability wait is
\* bounded by the Config.ELEMENT_*_TIMEOUT of its predicate.
C19_PredicateTimeouts ==
    \A i \in 1..Len(last.waits) :
        LET w == last.waits[i]
        IN  ( /\ DEFAULT_TIMEOUT > 0 /\ w.arg = None
              /\ w.kind \in {"presence", "visibility", "clickable"} ) =>
                w.timeout = ConfiguredTimeout(w.kind)

\* C20: retry_on_stale invokes the wrapped function at least once and at most
\* max_attempts times, and returns only the result of an invocation that
\* did not raise.
C20_RetryAlwaysInvokes ==
    last.op = "retry_on_stale" =>
        /\ last.invocations >= 1
        /\ last.invocations <= last.max_attempts
        /\ last.status = "returned" =>
                (last.value = "result" /\ last.outcomes[last.invocations] = "ok")

\* C11: a login() whose click on the submit button or whose wait for the
\* profile card times out raises that TimeoutException, after logging the
\* failure and taking the login_failure screenshot.
C11_LoginTimeoutReported ==
    ( /\ DEFAULT_TIMEOUT > 0
      /\ last.op = "login"
      /\ Len(last.waits) >= 3
      /\ TimedOut(last) ) =>
        /\ last.status = "raised" /\ last.error = "TimeoutException"
        /\ last.errors /= <<>>
        /\ last.screenshots /= <<>>

C12_LoginTestPasses ==
    ( /\ DEFAULT_TIMEOUT > 0
      /\ run.phase = "idle"
      /\ run.report.test = "test_successful_login_qa_user"
      /\ "login_page" \in run.report.funcargs ) =>
        /\ run.report.when = "call"
        /\ run.report.outcome = "passed"

\* C14: the report of every failed test that had a driver session carries
\* the originating error and a screenshot, whether the test failed in its
\* body or in the setup of a page-object fixture.
C14_FailureHasScreenshot ==
    ( /\ DEFAULT_TIMEOUT > 0
      /\ run.phase = "idle"
      /\ run.report.outcome = "failed"
      /\ "driver" \in run.report.funcargs ) =>
        /\ run.report.error /= "none"
        /\ run.report.screenshot

\* C15: once a test has finished, every session the driver fixture created
\* has been quit.
C15_SessionsQuit ==
    run.phase = "idle" => run.open = {}

\* C16: the session of a test is opened at the base URL of the environment
\* given with --env.
C16_EnvSelectsBaseUrl ==
    run.url /= "" => run.url = BASE_URLS(run.option)

====
